---- MODULE Spec2Model ----
(***************************************************************************)
(* Model of export_chatgpt_team.py: the API lister (LIST_JS), the shape    *)
(* normalizer (convert_api_conversation), the sidebar scroll loop and link *)
(* de-duplication (load_all_chats_dom) and the run's control flow (main).  *)
(*                                                                         *)
(* JSON / Python values are tagged records, [t |-> "str", s |-> chars],    *)
(* [t |-> "list", l |-> seq], [t |-> "dict", d |-> function], ...; text is *)
(* a sequence of one-character strings, so that strip, join, rsplit and    *)
(* startswith are computed and not assumed.                                *)
(***************************************************************************)
EXTENDS Integers, Sequences, FiniteSets, TLC

VARIABLES
    api_obj, ret,                         \* convert_api_conversation: argument, outcome
    res, offset, lpc,                     \* LIST_JS: locals and position
    requests, pages,                      \* LIST_JS: fetch calls made, loop passes made
    seen, stable, passes, spc,            \* load_all_chats_dom: scroll loop locals
    lastTotal, same,                      \* the previous pass's count; passes it stayed equal
    pc, items, idx, conversations, links, \* main: position and locals
    browser, export, raised               \* main: context, written document, uncaught error

nvars == <<api_obj, ret>>
lvars == <<res, offset, lpc, requests, pages>>
svars == <<seen, stable, passes, spc, lastTotal, same>>
mvars == <<pc, items, idx, conversations, links, browser, export, raised>>
vars == <<api_obj, ret, res, offset, lpc, requests, pages,
          seen, stable, passes, spc, lastTotal, same,
          pc, items, idx, conversations, links, browser, export, raised>>

----------------------------------------------------------------------------
(* Bounds of the model.                                                    *)

MaxNodes == 2      \* nodes in a payload's mapping
MaxPages == 3      \* list pages the service serves before it stops answering
MaxItems == 3      \* listed items of a run
MaxLinks == 3      \* anchors the sidebar locators return in a run

----------------------------------------------------------------------------
(* Python / JSON values.                                                   *)

JNull == [t |-> "null"]
JStr(s) == [t |-> "str", s |-> s]
JNum(n) == [t |-> "num", n |-> n]
JList(s) == [t |-> "list", l |-> s]
JDict(f) == [t |-> "dict", d |-> f]
EmptyDict == JDict(<<>>)

Raise(e) == [t |-> "raise", e |-> e]
Ok(x) == [t |-> "ok", r |-> x]

\* bool(x) of Python
Truthy(x) ==
    CASE x.t = "null" -> FALSE
      [] x.t = "str" -> x.s # <<>>
      [] x.t = "num" -> x.n # 0
      [] x.t = "list" -> x.l # <<>>
      [] x.t = "dict" -> DOMAIN x.d # {}

\* x or y
Or(x, y) == IF Truthy(x) THEN x ELSE y

\* d.get(k) on a dict d: None when the key is absent
Get(d, k) == IF k \in DOMAIN d.d THEN d.d[k] ELSE JNull

\* d.get(k, default)
GetDefault(d, k, default) == IF k \in DOMAIN d.d THEN d.d[k] ELSE default

Whitespace == {" ", "\n"}

RECURSIVE LStrip(_)
LStrip(s) ==
    IF s # <<>> /\ Head(s) \in Whitespace THEN LStrip(Tail(s)) ELSE s

RECURSIVE RStrip(_)
RStrip(s) ==
    IF s # <<>> /\ s[Len(s)] \in Whitespace
    THEN RStrip(SubSeq(s, 1, Len(s) - 1))
    ELSE s

\* str.strip()
Strip(s) == RStrip(LStrip(s))

\* "\n".join(chunk) for a list of str
RECURSIVE Join(_)
Join(chunk) ==
    IF chunk = <<>> THEN <<>>
    ELSE IF Len(chunk) = 1 THEN chunk[1]
    ELSE chunk[1] \o <<"\n">> \o Join(Tail(chunk))

----------------------------------------------------------------------------
(* convert_api_conversation.                                               *)

\* A mapping is a dict keyed by node id.  Node ids are "1", "2", ... in the
\* order the keys were inserted, so list(mapping.values()) is:
Values(mapping) ==
    [i \in 1..Cardinality(DOMAIN mapping.d) |-> mapping.d[ToString(i)]]

\* the mapping whose values, in insertion order, are the sequence nodes
RECURSIVE MappingEntries(_, _)
MappingEntries(nodes, i) ==
    IF i > Len(nodes) THEN <<>>
    ELSE (ToString(i) :> nodes[i]) @@ MappingEntries(nodes, i + 1)

MappingOf(nodes) == JDict(MappingEntries(nodes, 1))

\* key of nodes.sort: n.get("message", {}).get("create_time") or 0
\* (the {} default applies only when the key is absent; None.get raises)
SortKey(n) ==
    IF n.t # "dict" THEN Raise("AttributeError")
    ELSE LET m == GetDefault(n, "message", EmptyDict)
         IN  IF m.t # "dict" THEN Raise("AttributeError")
             ELSE Ok(Or(Get(m, "create_time"), JNum(0)))

\* list.sort is stable: insert x after every element whose key is <= x's
RECURSIVE InsertByKey(_, _)
InsertByKey(sorted, x) ==
    IF sorted = <<>> THEN <<x>>
    ELSE IF SortKey(Head(sorted)).r.n <= SortKey(x).r.n
         THEN <<Head(sorted)>> \o InsertByKey(Tail(sorted), x)
         ELSE <<x>> \o sorted

RECURSIVE StableSort(_)
StableSort(s) ==
    IF s = <<>> THEN <<>>
    ELSE InsertByKey(StableSort(SubSeq(s, 1, Len(s) - 1)), s[Len(s)])

\* nodes = list(mapping.values()); nodes.sort(key=...)
SortNodes(mapping) ==
    IF mapping.t # "dict" THEN Raise("AttributeError")
    ELSE IF \E i \in DOMAIN Values(mapping) : SortKey(Values(mapping)[i]).t = "raise"
         THEN Raise("AttributeError")
         ELSE Ok(StableSort(Values(mapping)))

\* the chunk list built from parts: str parts, and p["text"] of dict parts
RECURSIVE Chunk(_)
Chunk(parts) ==
    IF parts = <<>> THEN <<>>
    ELSE LET p == Head(parts)
         IN  (IF p.t = "str" THEN <<p>>
              ELSE IF p.t = "dict" /\ "text" \in DOMAIN p.d THEN <<p.d["text"]>>
              ELSE <<>>) \o Chunk(Tail(parts))

RECURSIVE StrValues(_)
StrValues(chunk) ==
    IF chunk = <<>> THEN <<>> ELSE <<Head(chunk).s>> \o StrValues(Tail(chunk))

\* the text of one message's content
ExtractText(content) ==
    IF content.t # "dict" THEN Raise("AttributeError")       \* content.get
    ELSE LET parts == Get(content, "parts")
         IN  IF parts.t = "list" /\ parts.l # <<>>
             THEN LET chunk == Chunk(parts.l)
                  IN  IF \E i \in DOMAIN chunk : chunk[i].t # "str"
                      THEN Raise("TypeError")                  \* "\n".join
                      ELSE Ok(Strip(Join(StrValues(chunk))))
             ELSE IF Get(content, "text").t = "str"
                  THEN Ok(Strip(Get(content, "text").s))
                  ELSE Ok(<<>>)

\* one pass of the loop "for n in nodes": the message appended for n
NodeMessage(n) ==
    LET m == Or(Get(n, "message"), EmptyDict)
        a == Or(Get(m, "author"), EmptyDict)
    IN  IF a.t # "dict" THEN Raise("AttributeError")
        ELSE LET author == Or(Get(a, "role"), JStr(<<"assistant">>))
                 text == ExtractText(Or(Get(m, "content"), EmptyDict))
             IN  IF text.t = "raise" THEN text
                 ELSE Ok([role |-> author, text |-> text.r, html |-> JNull])

RECURSIVE NodeMessages(_)
NodeMessages(nodes) ==
    IF nodes = <<>> THEN Ok(<<>>)
    ELSE LET first == NodeMessage(Head(nodes))
         IN  IF first.t = "raise" THEN first
             ELSE LET rest == NodeMessages(Tail(nodes))
                  IN  IF rest.t = "raise" THEN rest
                      ELSE Ok(<<first.r>> \o rest.r)

convert_api_conversation(obj) ==
    IF obj.t # "dict" THEN Raise("AttributeError")
    ELSE LET cid == Or(Get(obj, "id"), Get(obj, "conversation_id"))
             title == Or(Or(Get(obj, "title"), Get(obj, "current_node")),
                         JStr(<<"Untitled">>))
             mapping == Or(Get(obj, "mapping"), EmptyDict)
         IN  IF Truthy(mapping)
             THEN LET nodes == SortNodes(mapping)
                  IN  IF nodes.t = "raise" THEN nodes
                      ELSE LET msgs == NodeMessages(nodes.r)
                           IN  IF msgs.t = "raise" THEN msgs
                               ELSE Ok([id |-> cid, title |-> title,
                                        messages |-> msgs.r])
             ELSE Ok([id |-> cid, title |-> title, messages |-> <<>>])

----------------------------------------------------------------------------
(* Detail payloads the normalizer is applied to.                           *)

Absent == [t |-> "absent"]

\* a dict of up to three keys; a key whose value is Absent is left out
Entry(k, v) == IF v.t = "absent" THEN <<>> ELSE k :> v

Dict3(k1, v1, k2, v2, k3, v3) ==
    JDict(Entry(k1, v1) @@ Entry(k2, v2) @@ Entry(k3, v3))

S_a == <<"a">>
S_b == <<"b">>
S_x == <<" ", "x", " ">>
S_y == <<"y">>

ContentParts == JDict([parts |-> JList(<<JStr(S_a), JDict([text |-> JStr(S_b)])>>)])
ContentText == JDict([text |-> JStr(S_x)])
ContentBare == JStr(S_y)
ContentPartsPadded == JDict([parts |-> JList(<<JStr(<<" ", "a">>), JStr(<<"b", "\n">>)>>)])
ContentPartsNumber == JDict([parts |-> JList(<<JNum(1), JStr(S_a)>>)])
ContentPartsTextNull == JDict([parts |-> JList(<<JDict([text |-> JNull])>>)])
ContentEmptyParts == JDict([parts |-> JList(<<>>), text |-> JStr(S_x)])
ContentList == JList(<<JStr(S_a)>>)

Contents ==
    {Absent, JNull, EmptyDict, ContentParts, ContentText, ContentBare,
     ContentPartsPadded, ContentPartsNumber, ContentPartsTextNull,
     ContentEmptyParts, ContentList}

AuthorUser == JDict([role |-> JStr(<<"user">>)])
Authors == {Absent, JNull, EmptyDict, AuthorUser, JStr(<<"user">>)}

CreateTimes == {Absent, JNull, JNum(1), JNum(2)}

Message(author, create_time, content) ==
    Dict3("author", author, "create_time", create_time, "content", content)

NodeOf(message) == JDict([message |-> message])

Nodes ==
    {EmptyDict, NodeOf(JNull)}
    \cup {NodeOf(Message(AuthorUser, JNum(1), c)) : c \in Contents}
    \cup {NodeOf(Message(AuthorUser, ct, ContentText)) : ct \in CreateTimes}
    \cup {NodeOf(Message(a, JNum(1), ContentParts)) : a \in Authors}

SeqsUpTo(S, n) == UNION {[1..k -> S] : k \in 0..n}

\* the mappings of at most n nodes, and an absent or null mapping
Mappings(n) == {Absent, JNull} \cup {MappingOf(s) : s \in SeqsUpTo(Nodes, n)}

Id_c1 == JStr(<<"c", "1">>)
Id_c2 == JStr(<<"c", "2">>)
Title_T == JStr(<<"T">>)

\* the detail payloads whose mapping has at most n nodes
Payloads(n) ==
    {Dict3("id", Id_c1, "title", Title_T, "mapping", m) : m \in Mappings(n)}
    \cup {Dict3("conversation_id", Id_c2, "current_node", JStr(<<"n">>), "mapping", m) :
            m \in Mappings(n)}
    \cup {Dict3("id", Absent, "title", JNull, "mapping", m) : m \in Mappings(n)}
    \cup {JList(<<Id_c1>>)}

----------------------------------------------------------------------------
(* Idle values of the parts of the state a specification does not use.     *)

NotCalled == [t |-> "none"]

IdleNorm == api_obj = JNull /\ ret = NotCalled
IdleList == res = <<>> /\ offset = 0 /\ requests = 0 /\ pages = <<>> /\ lpc = "idle"
IdleScroll ==
    seen = 0 /\ stable = 0 /\ passes = 0 /\ spc = "idle" /\ lastTotal = 0 /\ same = 0
IdleMain ==
    /\ pc = "idle" /\ items = <<>> /\ idx = 0 /\ conversations = <<>>
    /\ links = <<>> /\ browser = "none" /\ export = NotCalled /\ raised = "none"

----------------------------------------------------------------------------
(* The normalizer applied to one payload.                                  *)

InitNorm ==
    api_obj \in Payloads(MaxNodes) /\ ret = NotCalled /\ IdleList /\ IdleScroll /\ IdleMain

Normalize ==
    /\ ret = NotCalled
    /\ ret' = convert_api_conversation(api_obj)
    /\ UNCHANGED <<api_obj, lvars, svars, mvars>>

NextNorm == Normalize

SpecNorm == InitNorm /\ [][NextNorm]_vars

----------------------------------------------------------------------------
(* LIST_JS and list_conversations_via_api.                                 *)

LIST_PAGE_SIZE == 50

JBool(b) == [t |-> "bool", b |-> b]
Failed == [t |-> "fail"]

\* truthiness of JavaScript: arrays and objects are always truthy
JsTruthy(x) ==
    CASE x.t = "null" -> FALSE
      [] x.t = "bool" -> x.b
      [] x.t = "num" -> x.n # 0
      [] x.t = "str" -> x.s # <<>>
      [] x.t \in {"list", "dict"} -> TRUE

\* for (const u of urls(offset, limit)): resp[i] is what fetching the i-th
\* url gives, Failed for a thrown fetch or a response that is not ok
TryUrls(resp) ==
    IF resp[1].t = "ok" THEN [ok |-> TRUE, data |-> resp[1].r, calls |-> 1]
    ELSE IF resp[2].t = "ok" THEN [ok |-> TRUE, data |-> resp[2].r, calls |-> 2]
    ELSE [ok |-> FALSE, data |-> JNull, calls |-> 2]

\* Array.isArray(data[k])
IsArray(data, k) == data.t = "dict" /\ Get(data, k).t = "list"

\* data.limit ?? limit
LimitOf(data, limit) ==
    IF Get(data, "limit").t = "null" THEN limit ELSE Get(data, "limit").n

\* a lister that goes on to the next offset whatever has_more says
PushPageNoStop(r, o, limit, data, k) ==
    [res |-> r \o Get(data, k).l, offset |-> o + LimitOf(data, limit), more |-> TRUE]

\* res.push(...data[k]); if (data.has_more) offset += ...; else break
PushPage(r, o, limit, data, k) ==
    IF JsTruthy(Get(data, "has_more"))
    THEN [res |-> r \o Get(data, k).l, offset |-> o + LimitOf(data, limit), more |-> TRUE]
    ELSE [res |-> r \o Get(data, k).l, offset |-> o, more |-> FALSE]

\* one pass of while (true) after the fetches: the locals, and whether the
\* loop goes on
ListPass(r, o, limit, f) ==
    IF ~f.ok \/ ~JsTruthy(f.data) THEN [res |-> r, offset |-> o, more |-> FALSE]
    ELSE IF IsArray(f.data, "items") THEN PushPage(r, o, limit, f.data, "items")
    ELSE IF IsArray(f.data, "conversations")
         THEN PushPage(r, o, limit, f.data, "conversations")
         ELSE [res |-> r, offset |-> o, more |-> FALSE]

(* What the service answers.                                               *)

ItemFull == JDict([id |-> Id_c1, title |-> Title_T])
ItemNoTitle == JDict([conversation_id |-> Id_c2])
ItemNoId == JDict([title |-> Title_T])
ListItems == {ItemFull, ItemNoTitle, ItemNoId}

\* a list page: the array field k, has_more, and the limit field when given
PageOf(k, array, more, lim) ==
    Dict3(k, JList(array), "has_more", JBool(more), "limit", lim)

\* the pages the service may serve when r items were listed by n passes: at
\* most one item a page, MaxItems items and MaxPages pages with has_more
ListPages(r, n) ==
    {PageOf(k[1], a, more, k[2]) :
        k \in {<<"items", Absent>>, <<"items", JNum(28)>>,
               <<"conversations", Absent>>},
        a \in {a \in SeqsUpTo(ListItems, 1) : Len(r) + Len(a) <= MaxItems},
        more \in {m \in BOOLEAN : m => n + 1 < MaxPages}}
    \cup {JNull, JDict([detail |-> JStr(<<"e">>)])}

ListResponses(r, n) ==
    {<<Failed, Failed>>}
    \cup {<<Ok(d), Failed>> : d \in ListPages(r, n)}
    \cup {<<Failed, Ok(d)>> : d \in ListPages(r, n)}

----------------------------------------------------------------------------
(* main: bootstrapping and the API listing.                                *)

Abort(at) == pc' = "aborted" /\ raised' = at

\* launch_persistent_context: the context opens, or the launch raises
LaunchContext ==
    /\ pc = "bootstrapping" /\ browser = "none"
    /\ \E ok \in BOOLEAN :
          IF ok THEN browser' = "open" /\ UNCHANGED <<pc, raised>>
          ELSE Abort("bootstrapping") /\ UNCHANGED browser
    /\ UNCHANGED <<items, idx, conversations, links, export, nvars, lvars, svars>>

\* ensure_logged_in: the app shell shows within 20 s, or within the further
\* 180 s, or the second wait raises PWTimeoutError (as may page.goto)
EnsureLoggedIn ==
    /\ pc = "bootstrapping" /\ browser = "open"
    /\ \E outcome \in {"shell", "shell_after_login", "timeout", "goto_error"} :
          IF outcome \in {"shell", "shell_after_login"}
          THEN pc' = "listing" /\ lpc' = "loop" /\ UNCHANGED raised
          ELSE Abort("bootstrapping") /\ UNCHANGED lpc
    /\ UNCHANGED <<items, idx, conversations, links, browser, export, nvars, svars,
                   res, offset, requests, pages>>

\* one pass of the while (true) of LIST_JS
ListPage ==
    /\ pc = "listing" /\ lpc = "loop"
    /\ \E resp \in ListResponses(res, Len(pages)) :
          LET f == TryUrls(resp)
              after == ListPass(res, offset, LIST_PAGE_SIZE, f)
          IN  /\ requests' = requests + f.calls
              /\ pages' = Append(pages, [offset |-> offset, ok |-> f.ok, data |-> f.data])
              /\ res' = after.res
              /\ offset' = after.offset
              /\ lpc' = IF after.more THEN "loop" ELSE "returned"
    /\ UNCHANGED <<mvars, nvars, svars>>

\* page.evaluate(LIST_JS, ...) raises: list_conversations_via_api returns []
ListEvaluateRaises ==
    /\ pc = "listing" /\ lpc = "loop"
    /\ lpc' = "failed"
    /\ UNCHANGED <<res, offset, requests, pages, mvars, nvars, svars>>

\* a run that never falls back to the DOM path
AfterApiWriting(convs) == "writing"

\* where main goes after the API path: "if not conversations" (line 395)
AfterApi(convs) == IF convs = <<>> THEN "dom_discovery" ELSE "writing"

\* items = list_conversations_via_api(page); "if items:" (line 377)
ListReturn ==
    /\ pc = "listing" /\ lpc \in {"returned", "failed"}
    /\ items' = IF lpc = "returned" THEN res ELSE <<>>
    /\ idx' = 1
    /\ pc' = IF items' # <<>> THEN "detail_fetching" ELSE AfterApi(conversations)
    /\ res' = <<>> /\ offset' = 0 /\ requests' = 0 /\ pages' = <<>> /\ lpc' = "idle"
    /\ UNCHANGED <<conversations, links, browser, export, raised, nvars, svars>>

----------------------------------------------------------------------------
(* main: detail fetching over the API.                                     *)

BaseUrl ==
    <<"h", "t", "t", "p", "s", ":", "/", "/", "c", "h", "a", "t", ".",
      "o", "p", "e", "n", "a", "i", ".", "c", "o", "m">>

\* f"https://chat.openai.com/c/{cid}"
UrlOf(cid) == BaseUrl \o <<"/", "c", "/">> \o cid.s

\* FETCH_ONE_JS and fetch_conversation_via_api: the first ok response's JSON,
\* else null
FetchOne(resp) ==
    IF resp[1].t = "ok" THEN resp[1].r
    ELSE IF resp[2].t = "ok" THEN resp[2].r
    ELSE JNull

TextNode(role, create_time, text) ==
    NodeOf(Message(JDict([role |-> JStr(<<role>>)]), create_time,
                   JDict([parts |-> JList(<<JStr(text)>>)])))

\* the detail payloads the service may answer for conversation cid
DetailFull(cid) ==
    Dict3("conversation_id", cid, "title", JStr(<<"D">>), "mapping",
          MappingOf(<<TextNode("assistant", JNum(2), <<"H", "e", "l", "l", "o", "!">>),
                      TextNode("user", JNum(1), <<"H", "i">>)>>))
DetailNoId == JDict([title |-> JStr(<<"D">>)])
DetailRootNode(cid) ==
    Dict3("id", cid, "title", Absent, "mapping",
          MappingOf(<<NodeOf(JNull), TextNode("user", JNum(1), <<"H", "i">>)>>))

DetailPayloads(cid) == {EmptyDict, DetailFull(cid), DetailNoId, DetailRootNode(cid)}

DetailResponses(cid) ==
    {<<Failed, Failed>>}
    \cup {<<Ok(d), Failed>> : d \in DetailPayloads(cid)}
    \cup {<<Failed, Ok(d)>> : d \in DetailPayloads(cid)}

\* the record appended for a listed item with id cid, given the fetched data;
\* a raise when convert_api_conversation raises
ConversationOf(cid, title, data) ==
    IF Truthy(data)
    THEN LET conv == convert_api_conversation(data)
         IN  IF conv.t = "raise" THEN conv
             ELSE Ok([id |-> conv.r.id, title |-> conv.r.title,
                      messages |-> conv.r.messages, url |-> UrlOf(cid)])
    ELSE Ok([id |-> cid, title |-> title, messages |-> <<>>, url |-> UrlOf(cid)])

\* one pass of "for idx, it in enumerate(items, 1)" (lines 379-392)
FetchDetail ==
    /\ pc = "detail_fetching" /\ idx <= Len(items)
    /\ LET it == items[idx]
           cid == Or(Get(it, "id"), Get(it, "conversation_id"))
           title == Or(Get(it, "title"), JStr(<<"Untitled">>))
       IN  IF ~Truthy(cid)
           THEN /\ idx' = idx + 1
                /\ pc' = IF idx = Len(items) THEN AfterApi(conversations) ELSE pc
                /\ UNCHANGED <<conversations, raised>>
           ELSE \E resp \in DetailResponses(cid) :
                   LET conv == ConversationOf(cid, title, FetchOne(resp))
                   IN  IF conv.t = "raise"
                       THEN Abort("detail_fetching") /\ UNCHANGED <<idx, conversations>>
                       ELSE /\ conversations' = Append(conversations, conv.r)
                            /\ idx' = idx + 1
                            /\ pc' = IF idx = Len(items) THEN AfterApi(conversations') ELSE pc
                            /\ UNCHANGED raised
    /\ UNCHANGED <<items, links, browser, export, nvars, lvars, svars>>

----------------------------------------------------------------------------
(* load_all_chats_dom.                                                     *)

MAX_SCROLL_PASSES == 80

StartsWith(s, prefix) ==
    Len(s) >= Len(prefix) /\ SubSeq(s, 1, Len(prefix)) = prefix

\* sub in s
Contains(s, sub) ==
    \E i \in 1..(Len(s) - Len(sub) + 1) : SubSeq(s, i, i + Len(sub) - 1) = sub

\* s.rsplit("/", 1)[-1]
RSplitLast(s) ==
    LET slashes == {i \in DOMAIN s : s[i] = "/"}
    IN  IF slashes = {} THEN s
        ELSE SubSeq(s, (CHOOSE i \in slashes : \A j \in slashes : j <= i) + 1, Len(s))

\* a counter that a changed count does not reset
CountPassNoReset(seenNow, stableNow, total) ==
    IF total = seenNow
    THEN [seen |-> seenNow, stable |-> stableNow + 1, break |-> stableNow + 1 >= 3]
    ELSE [seen |-> total, stable |-> stableNow, break |-> FALSE]

\* lines 260-266: the counters after a pass that counted total links, and
\* whether the pass breaks out of the loop
CountPass(seenNow, stableNow, total) ==
    IF total = seenNow
    THEN [seen |-> seenNow, stable |-> stableNow + 1, break |-> stableNow + 1 >= 3]
    ELSE [seen |-> total, stable |-> 0, break |-> FALSE]

\* the anchors the link locators return: href attribute (None when absent),
\* title text; a stale anchor raises and is skipped
Href_x == <<"/", "c", "/", "x">>
Href_y == <<"/", "c", "/", "y">>
Href_other == <<"/", "g", "/", "x">>
Href_noid == <<"/", "c", "/">>

Anchor(href, title) == [t |-> "anchor", href |-> href, title |-> title]
Stale == [t |-> "stale"]

Anchors ==
    {Anchor(JStr(Href_x), <<"X">>), Anchor(JStr(BaseUrl \o Href_x), <<" ", "X", "2">>),
     Anchor(JStr(Href_y), <<>>), Anchor(JStr(Href_noid), <<"N">>),
     Anchor(JStr(Href_other), <<"G">>), Anchor(JNull, <<"Z">>), Stale}

\* lines 268-282: the links list built from the anchors
RECURSIVE LinksOf(_)
LinksOf(anchors) ==
    IF anchors = <<>> THEN <<>>
    ELSE LET a == Head(anchors)
         IN  (IF a.t = "anchor" /\ Truthy(a.href) /\ Contains(a.href.s, <<"/", "c", "/">>)
              THEN <<[href |-> IF StartsWith(a.href.s, <<"h", "t", "t", "p">>)
                               THEN a.href.s
                               ELSE BaseUrl \o a.href.s,
                      title |-> Strip(a.title)]>>
              ELSE <<>>) \o LinksOf(Tail(anchors))

\* lines 284-290: de-dup by id, first occurrence kept
RECURSIVE Dedup(_, _)
Dedup(ls, seen_ids) ==
    IF ls = <<>> THEN <<>>
    ELSE LET cid == RSplitLast(Head(ls).href)
         IN  IF cid \notin seen_ids
             THEN <<Head(ls)>> \o Dedup(Tail(ls), seen_ids \cup {cid})
             ELSE Dedup(Tail(ls), seen_ids)

\* where main goes with the links of load_all_chats_dom (lines 401-427)
AfterDiscovery(ls) == IF ls = <<>> THEN "writing" ELSE "dom_extraction"

\* page.goto (line 397) and the head of load_all_chats_dom up to the loop
EnterSidebar ==
    /\ pc = "dom_discovery" /\ spc = "idle"
    /\ \E outcome \in {"goto_error", "no_sidebar", "sidebar"} :
          CASE outcome = "goto_error" ->
                  Abort("dom_discovery") /\ UNCHANGED <<spc, links, idx>>
            [] outcome = "no_sidebar" ->
                  /\ links' = <<>> /\ idx' = 1 /\ pc' = AfterDiscovery(<<>>)
                  /\ UNCHANGED <<spc, raised>>
            [] outcome = "sidebar" ->
                  spc' = "scrolling" /\ UNCHANGED <<pc, raised, links, idx>>
    /\ UNCHANGED <<items, conversations, browser, export, nvars, lvars,
                   seen, stable, passes, lastTotal, same>>

\* one pass of "for _ in range(MAX_SCROLL_PASSES)" (lines 251-266)
ScrollPass ==
    /\ pc = "dom_discovery" /\ spc = "scrolling" /\ passes < MAX_SCROLL_PASSES
    /\ passes' = passes + 1
    /\ \/ /\ spc' = "error_break"             \* the scroll raises: break
          /\ UNCHANGED <<seen, stable, lastTotal, same>>
       \/ \E total \in 0..MaxLinks :
             LET after == CountPass(seen, stable, total)
             IN  /\ seen' = after.seen
                 /\ stable' = after.stable
                 /\ spc' = IF after.break THEN "stable_break"
                           ELSE IF passes' = MAX_SCROLL_PASSES THEN "exhausted"
                           ELSE "scrolling"
                 /\ lastTotal' = total
                 /\ same' = IF total = lastTotal THEN same + 1 ELSE 0
    /\ UNCHANGED <<mvars, nvars, lvars>>

\* line 268, "links = []": the loop is left; seen, stable and the loop
\* counter are not read again and are dropped here
LeaveLoop ==
    /\ pc = "dom_discovery" /\ spc \in {"stable_break", "error_break", "exhausted"}
    /\ links' = <<>>
    /\ spc' = "collecting"
    /\ seen' = 0 /\ stable' = 0 /\ passes' = 0 /\ lastTotal' = 0 /\ same' = 0
    /\ UNCHANGED <<pc, items, idx, conversations, browser, export, raised, nvars, lvars>>

\* lines 269-291: collect the anchors, de-duplicate, return
CollectLinks ==
    /\ pc = "dom_discovery" /\ spc = "collecting"
    /\ \E anchors \in SeqsUpTo(Anchors, MaxLinks) :
          /\ links' = Dedup(LinksOf(anchors), {})
          /\ pc' = AfterDiscovery(links')
    /\ idx' = 1
    /\ spc' = "idle"
    /\ UNCHANGED <<items, conversations, browser, export, raised, nvars, lvars,
                   seen, stable, passes, lastTotal, same>>

----------------------------------------------------------------------------
(* main: DOM extraction, writing.                                          *)

Turn(role, text) ==
    [role |-> JStr(<<role>>), text |-> text, html |-> JStr(<<"<", "p", ">">> \o text)]

\* what extract_turns_dom returns
TurnLists == {<<>>, <<Turn("user", <<"H", "i">>), Turn("assistant", <<>>)>>}

\* the conversation-title candidates: none matches, or the first gives text
PageTitles == {JNull, JStr(<<>>), JStr(<<"P">>)}

\* one pass of "for idx, link in enumerate(links, 1)" (lines 401-427)
ExtractLink ==
    /\ pc = "dom_extraction" /\ idx <= Len(links)
    /\ LET link == links[idx]
           url == link.href
           cid == RSplitLast(url)
       IN  \/ Abort("dom_extraction") /\ UNCHANGED <<idx, conversations>>
           \/ \E found \in PageTitles, turns \in TurnLists :
                 LET title == Or(found, Or(JStr(link.title), JStr(<<"Untitled">>)))
                 IN  /\ conversations' =
                            Append(conversations,
                                   [id |-> JStr(cid), url |-> url, title |-> title,
                                    messages |-> turns])
                     /\ idx' = idx + 1
                     /\ pc' = IF idx = Len(links) THEN "writing" ELSE pc
                     /\ UNCHANGED raised
    /\ UNCHANGED <<items, links, browser, export, nvars, lvars, svars>>

\* lines 429-433: write the document, close the context
WriteAndClose ==
    /\ pc = "writing"
    /\ export' = [source |-> "chat.openai.com (API-first exporter)",
                  conversations |-> conversations]
    /\ browser' = "closed"
    /\ pc' = "done"
    /\ UNCHANGED <<items, idx, conversations, links, raised, nvars, lvars, svars>>

Init ==
    /\ IdleNorm /\ IdleList /\ IdleScroll
    /\ pc = "bootstrapping" /\ items = <<>> /\ idx = 0 /\ conversations = <<>>
    /\ links = <<>> /\ browser = "none" /\ export = NotCalled /\ raised = "none"

Next ==
    \/ LaunchContext
    \/ EnsureLoggedIn
    \/ ListPage
    \/ ListEvaluateRaises
    \/ ListReturn
    \/ FetchDetail
    \/ EnterSidebar
    \/ ScrollPass
    \/ LeaveLoop
    \/ CollectLinks
    \/ ExtractLink
    \/ WriteAndClose

Spec == Init /\ [][Next]_vars

----------------------------------------------------------------------------
(* Claims about the normalizer (checked under SpecNorm).                   *)

Returned == ret.t # "none"

PayloadMapping == IF api_obj.t = "dict" THEN Get(api_obj, "mapping") ELSE JNull

PayloadNodes == Values(PayloadMapping)

HasNodeMapping == PayloadMapping.t = "dict" /\ DOMAIN PayloadMapping.d # {}

\* the content of a node's message; None when there is no message
ContentOf(n) ==
    LET m == Get(n, "message")
    IN  IF m.t = "dict" THEN Get(m, "content") ELSE JNull

\* the creation timestamp of a node's message, missing or null counting as 0
TimestampOf(n) ==
    LET m == Get(n, "message")
    IN  IF m.t = "dict" /\ Get(m, "create_time").t = "num"
        THEN Get(m, "create_time").n
        ELSE 0

AuthorWellFormed(m) == Get(m, "author").t \in {"null", "dict"}

\* the strings precedence (a) joins: string parts and the text of object parts
RECURSIVE ClaimParts(_)
ClaimParts(parts) ==
    IF parts = <<>> THEN <<>>
    ELSE LET p == Head(parts)
         IN  (IF p.t = "str" THEN <<p.s>>
              ELSE IF p.t = "dict" /\ Get(p, "text").t = "str" THEN <<Get(p, "text").s>>
              ELSE <<>>) \o ClaimParts(Tail(parts))

\* the text the precedence (a)-(d) gives for a content
ClaimText(c) ==
    IF c.t = "dict" /\ Get(c, "parts").t = "list"
    THEN Strip(Join(ClaimParts(Get(c, "parts").l)))
    ELSE IF c.t = "dict" /\ Get(c, "text").t = "str" THEN Strip(Get(c, "text").s)
    ELSE IF c.t = "str" THEN Strip(c.s)
    ELSE <<>>

\* C1: convert_api_conversation is total: for every detail payload (a
\* dictionary), whatever its nodes hold, it returns a record and never raises,
\* and a payload without title and current-node field gets the title
\* "Untitled".
C1_NormalizerTotal ==
    (Returned /\ api_obj.t = "dict") =>
        /\ ret.t = "ok"
        /\ (~Truthy(Get(api_obj, "title")) /\ ~Truthy(Get(api_obj, "current_node")))
              => ret.r.title = JStr(<<"Untitled">>)

\* a node whose message is a dictionary with a well-formed author: only its
\* content decides what NodeMessage does
EnvelopeWellFormed(n) ==
    /\ n.t = "dict"
    /\ Get(n, "message").t = "dict"
    /\ AuthorWellFormed(Get(n, "message"))

\* C2: for every node of a node-mapping (the node's message and author being
\* well-formed), the normalized text follows the precedence (a) parts joined
\* with newlines and trimmed, (b) else the string text field trimmed, (c) else
\* the bare string content trimmed, (d) else the empty string.
C2_TextPrecedence ==
    (Returned /\ HasNodeMapping
       /\ \A i \in DOMAIN PayloadNodes : EnvelopeWellFormed(PayloadNodes[i])) =>
        /\ ret.t = "ok"
        /\ Len(ret.r.messages) = Len(PayloadNodes)
        /\ \A i \in DOMAIN ret.r.messages :
              ret.r.messages[i].text = ClaimText(ContentOf(SortNodes(PayloadMapping).r[i]))

\* a node whose message is missing, null, or a dictionary with a well-formed
\* author and a content whose text extraction succeeds: only the message's
\* presence and timestamp are at stake
TimestampCase(n) ==
    /\ n.t = "dict"
    /\ \/ Get(n, "message").t = "null"
       \/ /\ Get(n, "message").t = "dict"
          /\ AuthorWellFormed(Get(n, "message"))
          /\ ExtractText(Or(Get(Get(n, "message"), "content"), EmptyDict)).t = "ok"

\* C3: for every detail payload with a non-empty node-mapping the returned
\* messages are one per node (the i-th being the message of some node p[i],
\* p a permutation), in an order that is non-decreasing in the node message's
\* creation timestamp (missing or null counting as 0); with no node-mapping
\* the messages are empty.
C3_SortedOnePerNode ==
    (Returned /\ api_obj.t = "dict") =>
        IF HasNodeMapping
        THEN (\A i \in DOMAIN PayloadNodes : TimestampCase(PayloadNodes[i])) =>
               /\ ret.t = "ok"
               /\ Len(ret.r.messages) = Len(PayloadNodes)
               /\ \E p \in Permutations(DOMAIN PayloadNodes) :
                     /\ \A i \in DOMAIN p :
                           ret.r.messages[i] = NodeMessage(PayloadNodes[p[i]]).r
                     /\ \A i, j \in DOMAIN p :
                           i < j => TimestampOf(PayloadNodes[p[i]])
                                      <= TimestampOf(PayloadNodes[p[j]])
        ELSE PayloadMapping.t = "null" => (ret.t = "ok" /\ ret.r.messages = <<>>)

----------------------------------------------------------------------------
(* Claims about the run (checked under Spec).                              *)

DomStates == {"dom_discovery", "dom_extraction"}

\* C4: once authenticated the run never aborts: no error escapes main after
\* bootstrapping, whatever a detail fetch or an extraction gives.
C4_RunNeverAborts == raised \in {"none", "bootstrapping"}

\* C5: every conversation of the written document has a non-empty id.
C5_NonEmptyIds ==
    pc = "done" =>
        \A i \in DOMAIN export.conversations :
            /\ export.conversations[i].id.t = "str"
            /\ export.conversations[i].id.s # <<>>

\* C8: no two conversations of the written document have the same id.
C8_UniqueIds ==
    pc = "done" =>
        \A i, j \in DOMAIN export.conversations :
            i # j => export.conversations[i].id # export.conversations[j].id

\* C9: a run that opened the browser context has closed it when it ends,
\* whether it ends normally or by an error.
C9_ContextClosed ==
    (pc \in {"done", "aborted"} /\ browser # "none") => browser = "closed"

\* C6 as stated: DOM-Discovery and DOM-Extraction are entered only in runs
\* whose API listing is empty.
C6_DomOnlyForEmptyListing == pc \in DomStates => items = <<>>

Transitions ==
    {<<"bootstrapping", "listing">>, <<"listing", "detail_fetching">>,
     <<"listing", "dom_discovery">>, <<"detail_fetching", "writing">>,
     <<"detail_fetching", "dom_discovery">>, <<"dom_discovery", "dom_extraction">>,
     <<"dom_discovery", "writing">>, <<"dom_extraction", "writing">>,
     <<"writing", "done">>}
    \cup {<<from, "aborted">> :
            from \in {"bootstrapping", "detail_fetching", "dom_discovery", "dom_extraction"}}

C6_Step ==
    /\ pc' # pc => <<pc, pc'>> \in Transitions
    /\ (pc = "listing" /\ pc' # pc) => (pc' = "detail_fetching" <=> items' # <<>>)
    /\ (pc = "detail_fetching" /\ pc' = "writing") => conversations' # <<>>
    /\ (pc \notin DomStates /\ pc' \in DomStates) =>
          (pc' = "dom_discovery" /\ conversations' = <<>>)
    /\ (pc = "detail_fetching" /\ conversations # <<>>) => pc' \notin DomStates

\* C6 (amended): the run moves Bootstrapping -> Listing -> Detail-Fetching (if
\* and only if the listing is non-empty) -> Writing when the API path produced
\* a conversation, else -> DOM-Discovery -> DOM-Extraction -> Writing -> Done,
\* or ends by an uncaught error; DOM-Discovery is entered only with zero
\* conversations from the API path, and never once one was produced.
C6_StateMachine == [][C6_Step]_vars

\* a non-empty listing none of whose items has an id reaches DOM-Discovery
C6_Witness == pc = "dom_discovery" /\ items # <<>>

\* the array a list page carries: items, else conversations
PageHasArray(p) ==
    p.ok /\ p.data.t = "dict"
         /\ (Get(p.data, "items").t = "list" \/ Get(p.data, "conversations").t = "list")

PageArray(p) ==
    IF Get(p.data, "items").t = "list" THEN Get(p.data, "items").l
    ELSE Get(p.data, "conversations").l

PageContinues(p) == PageHasArray(p) /\ Get(p.data, "has_more") = JBool(TRUE)

RECURSIVE ConcatPages(_)
ConcatPages(ps) ==
    IF ps = <<>> THEN <<>>
    ELSE (IF PageHasArray(Head(ps)) THEN PageArray(Head(ps)) ELSE <<>>)
         \o ConcatPages(Tail(ps))

\* C7: the lister requests pages at increasing offsets; every pass but the
\* last read a page with an array and has_more; it has stopped exactly when
\* the last pass read has_more false, neither array, or no ok response; the
\* result is the concatenation of the pages' arrays in order, and every fetch
\* belongs to one of these passes.
C7_ListerStopsGracefully ==
    (pc = "listing" /\ lpc \in {"loop", "returned"}) =>
        /\ \A i \in 1..(Len(pages) - 1) : PageContinues(pages[i])
        /\ \A i, j \in DOMAIN pages : i < j => pages[i].offset < pages[j].offset
        /\ res = ConcatPages(pages)
        /\ lpc = "returned" <=> (pages # <<>> /\ ~PageContinues(pages[Len(pages)]))
        /\ Len(pages) <= requests /\ requests <= 2 * Len(pages)

\* three non-empty pages with has_more true, true, false were read
C7_Witness ==
    /\ pc = "listing" /\ lpc = "returned" /\ Len(pages) = 3
    /\ \A i \in 1..3 : PageHasArray(pages[i]) /\ PageArray(pages[i]) # <<>>
    /\ PageContinues(pages[1]) /\ PageContinues(pages[2])
    /\ Get(pages[3].data, "has_more") = JBool(FALSE)
    /\ res = PageArray(pages[1]) \o PageArray(pages[2]) \o PageArray(pages[3])

LoopLeft == spc \in {"stable_break", "error_break", "exhausted"}

\* C10 as stated: the scroll loop stops before the cap only when the count
\* was unchanged for 3 consecutive passes.
C10_EarlyStopOnlyWhenStable ==
    (pc = "dom_discovery" /\ LoopLeft /\ passes < MAX_SCROLL_PASSES) => same >= 3

\* C10 (amended): the loop makes at most MAX_SCROLL_PASSES passes; stable is
\* the number of consecutive passes whose count equalled the previous pass's
\* (0 before the first pass), reset to 0 by a pass whose count differs; the
\* loop goes on while that number is below 3 and the cap is not reached, and
\* stops early exactly when it reaches 3 or when the scroll of a pass raises.
C10_ScrollLoopBounded ==
    (pc = "dom_discovery" /\ spc \in {"scrolling", "stable_break", "error_break", "exhausted"}) =>
        /\ passes <= MAX_SCROLL_PASSES
        /\ stable = same /\ seen = lastTotal
        /\ spc = "scrolling" => (passes < MAX_SCROLL_PASSES /\ same < 3)
        /\ spc = "stable_break" => same = 3
        /\ spc = "exhausted" => (passes = MAX_SCROLL_PASSES /\ same < 3)
        /\ spc = "error_break" => same < 3

\* the count changed at least once, then stayed for 3 passes, before the cap
C10_Witness ==
    /\ pc = "dom_discovery" /\ spc = "stable_break"
    /\ seen > 0 /\ passes > 3 /\ passes < MAX_SCROLL_PASSES

====
